---- MODULE Spec2Model ----
(***************************************************************************)
(* Validation of workflow transactions in LabChain                         *)
(* (labchain/workflow/taskTransaction.py).                                 *)
(*                                                                         *)
(* Several threads call validate_transaction on TaskTransaction and        *)
(* WorkflowTransaction objects against one blockchain (the committed       *)
(* ledger) and one transaction pool.  Both validators take the class-wide  *)
(* lock TaskTransaction._validation_lock.  A transaction that validated    *)
(* true is handed to the pool and later moved into the ledger.             *)
(*                                                                         *)
(* The console client (labchain/documentFlowClient.py) is modelled next to  *)
(* the validators: the Menu loop, the DocTransactionWizard it starts and   *)
(* the transactions the wizard hands to network_interface.sendTransaction. *)
(*                                                                         *)
(* A PID string "<key>_<number>" is represented by the sequence of its     *)
(* '_'-separated segments, so PID.split(sep='_') is the sequence itself.   *)
(* A payload dict is a function from its keys; a lookup of a key outside   *)
(* DOMAIN is Python's KeyError.                                            *)
(***************************************************************************)
EXTENDS Naturals, Integers, Sequences, FiniteSets, TLC

\* ------------------------------------------------------------------ bounds
NumThreads == 2

\* The number of validate_transaction calls a behaviour makes.
MaxCalls == 3

\* The number of calls a behaviour of DeepSpec makes: two workflows started
\* and a task validated in each.
MaxDeepCalls == 4

Threads == 1..NumThreads

\* ------------------------------------------------------- keys and PIDs
\* Strings that base64-decode to something ECC.import_key accepts.
ValidKeys == {"Ka", "Kb", "Kc"}

\* Strings Python's int() parses (a leading minus sign is accepted).
IntStrings == {"0", "1", "2", "-1"}

PIDa == <<"Ka", "0">>
PIDb == <<"Kb", "1">>
PIDc == <<"Kc", "2">>
PIDbad == <<"Kb", "x">>
\* A PID whose sequence part is a negative number.
PIDneg == <<"Kc", "-1">>

EmptyDict == [k \in {} |-> k]

\* The value None of a lookup that found nothing.
NoneTx == [cls |-> "None"]

IsNone(t) == t.cls = "None"

Has(d, k) == k \in DOMAIN d

\* ------------------------------------------------- the transactions used
\* Genesis of workflow W1: Ka may hand the document to Kb or to Kc.
GA == [cls |-> "Workflow", transaction_hash |-> "hGA",
       sender |-> "Ka", receiver |-> "Ka", signature_ok |-> TRUE,
       payload |-> [transaction_type |-> "1", workflow_id |-> "W1",
                    in_charge |-> PIDa,
                    document |-> [title |-> "draft"],
                    processes |-> (PIDa :> <<PIDb, PIDc>>),
                    permissions |-> [title |-> <<PIDa>>]]]

\* A second genesis that claims the same workflow_id W1; its receiver is
\* not the key of its in_charge, and its permissions list a PID with a
\* negative sequence number.
GB == [cls |-> "Workflow", transaction_hash |-> "hGB",
       sender |-> "Ka", receiver |-> "Kc", signature_ok |-> TRUE,
       payload |-> [transaction_type |-> "1", workflow_id |-> "W1",
                    in_charge |-> PIDb,
                    document |-> [title |-> "draft"],
                    processes |-> (PIDb :> <<PIDc>>),
                    permissions |-> [title |-> <<PIDb, PIDneg>>]]]

\* Genesis of workflow W2 with a malformed PID among its successors.
GC == [cls |-> "Workflow", transaction_hash |-> "hGC",
       sender |-> "Kc", receiver |-> "Kc", signature_ok |-> TRUE,
       payload |-> [transaction_type |-> "1", workflow_id |-> "W2",
                    in_charge |-> PIDc,
                    document |-> [title |-> "draft"],
                    processes |-> (PIDc :> <<PIDbad>>),
                    permissions |-> [title |-> <<PIDc>>]]]

\* Genesis of workflow W3 as the data model lists it: no in_charge.
GD == [cls |-> "Workflow", transaction_hash |-> "hGD",
       sender |-> "Kb", receiver |-> "Kb", signature_ok |-> TRUE,
       payload |-> [transaction_type |-> "1", workflow_id |-> "W3",
                    document |-> [title |-> "draft"],
                    processes |-> (PIDa :> <<PIDb>>),
                    permissions |-> [title |-> <<PIDa>>]]]

Task(h, s, r, ty, wid, pt, wt, ic, doc, sig) ==
    [cls |-> "Task", transaction_hash |-> h,
     sender |-> s, receiver |-> r, signature_ok |-> sig,
     payload |-> [transaction_type |-> ty, workflow_id |-> wid,
                  previous_transaction |-> pt, workflow_transaction |-> wt,
                  in_charge |-> ic, document |-> doc]]

\* Ka hands the document of W1 to Kb.
T1 == Task("hT1", "Ka", "Kb", "2", "W1", "hGA", "hGA", PIDb, [title |-> "v1"], TRUE)
\* Same predecessor, sender and receiver as T1, other document.
T2 == Task("hT2", "Ka", "Kb", "2", "W1", "hGA", "hGA", PIDb, [title |-> "v2"], TRUE)
\* Same predecessor as T1, handed to Kc instead.
T3 == Task("hT3", "Ka", "Kc", "2", "W1", "hGA", "hGA", PIDc, EmptyDict, TRUE)
\* The predecessor is in no block.
T4 == Task("hT4", "Ka", "Kb", "2", "W1", "hMissing", "hGA", PIDb, EmptyDict, TRUE)
\* The predecessor resolves, the workflow transaction does not.
T5 == Task("hT5", "Ka", "Kb", "2", "W1", "hGA", "hMissing", PIDb, EmptyDict, TRUE)
\* Follows T1; PIDb has no entry in the processes of GA.
T6 == Task("hT6", "Kb", "Kc", "2", "W1", "hT1", "hGA", PIDc, EmptyDict, TRUE)
\* Follows GB; the sender is the key of GB.in_charge but not GB.receiver.
T7 == Task("hT7", "Kb", "Kc", "2", "W1", "hGB", "hGB", PIDc, EmptyDict, TRUE)
\* A payload whose transaction_type was overwritten.
T8 == Task("hT8", "Ka", "Kb", "0", "W1", "hGA", "hGA", PIDb, EmptyDict, TRUE)
\* Like T1 but the signature does not verify.
T9 == Task("hT9", "Ka", "Kb", "2", "W1", "hGA", "hGA", PIDb, [title |-> "v9"], FALSE)

\* Touches an attribute that GA.permissions does not list.
T10 == Task("hT10", "Ka", "Kb", "2", "W1", "hGA", "hGA", PIDb, [secret |-> "x"], TRUE)
\* The in_charge is malformed and is no successor GA.processes declares.
T11 == Task("hT11", "Ka", "Kb", "2", "W1", "hGA", "hGA", PIDbad, EmptyDict, TRUE)
\* Handed to Kc while in_charge names Kb.
T12 == Task("hT12", "Ka", "Kc", "2", "W1", "hGA", "hGA", PIDb, EmptyDict, TRUE)
\* Follows T1 like T6 but names GB as its workflow transaction.
T13 == Task("hT13", "Kb", "Kc", "2", "W1", "hT1", "hGB", PIDc, EmptyDict, TRUE)

Genesis == {GA, GB, GC, GD}
Tasks == {T1, T2, T3, T4, T5, T6, T7, T8, T9, T10, T11, T12}
Transactions == Genesis \cup Tasks

\* The transactions validated in the behaviours of DeepSpec: T13 takes a
\* ledger of four transactions to validate true.
DeepTransactions == Transactions \cup {T13}

\* ---------------------------------------------------- property accessors
\* TaskTransaction.workflow_ID, .previous_transaction, ... read the payload.
workflow_ID(t) == t.payload["workflow_id"]
previous_transaction(t) == t.payload["previous_transaction"]
workflow_transaction(t) == t.payload["workflow_transaction"]
in_charge(t) == t.payload["in_charge"]
document(t) == t.payload["document"]
processes(t) == t.payload["processes"]
permissions(t) == t.payload["permissions"]

Range(f) == {f[i] : i \in DOMAIN f}

\* --------------------------------------------- collaborators of the check
\* blockchain.get_transaction(hash)[0]: the committed transaction with that
\* hash, or None.
get_transaction(chain, h) ==
    IF \E t \in chain : t.transaction_hash = h
    THEN CHOOSE t \in chain : t.transaction_hash = h
    ELSE NoneTx

\* blockchain.get_all_transactions(): every committed transaction.
get_all_transactions(chain) == chain

\* blockchain.search_transaction_from_sender(key)
search_transaction_from_sender(chain, key) == {t \in chain : t.sender = key}

\* blockchain.search_transaction_to_receiver(key)
search_transaction_to_receiver(chain, key) == {t \in chain : t.receiver = key}

\* TxPool.get_workflow_transactions(): the pending genesis transactions.
get_workflow_transactions(txpool) == {t \in txpool : t.cls = "Workflow"}

\* Transaction.validate_transaction: the signature verifies or it does not.
verify_signature(t) == t.signature_ok

\* ------------------------------------------------------------ pure checks
\* Variant of check_pid_well_formedness: the sequence number is not parsed.
check_pid_well_formedness_nonumber(PID) ==
    IF Len(PID) # 2 THEN FALSE
    ELSE IF PID[1] \notin ValidKeys THEN FALSE
    ELSE TRUE

\* TaskTransaction._check_pid_well_formedness
check_pid_well_formedness(PID) ==
    IF Len(PID) # 2 THEN FALSE
    ELSE IF PID[2] \notin IntStrings THEN FALSE
    ELSE IF PID[1] \notin ValidKeys THEN FALSE
    ELSE TRUE

\* What _check_pid_well_formedness logs before it returns False: nothing
\* when the PID has not two segments.
pid_warning(PID) ==
    IF Len(PID) # 2 THEN ""
    ELSE IF PID[2] \notin IntStrings THEN "Number in PID wrong!"
    ELSE IF PID[1] \notin ValidKeys THEN "Public Key in PID is not a key!"
    ELSE ""

\* The first check of validate_transaction: the type is '2' or '1'.  The
\* code compares with "is not"; CPython keeps a single object for every
\* one-character string, so the identity test decides as equality does.
TaskTypeOk(self) == self.payload["transaction_type"] \in {"1", "2"}

\* The first check of WorkflowTransaction.validate_transaction.
WorkflowTypeOk(self) == self.payload["transaction_type"] = "1"

\* Variant of SenderIsPreviousReceiver: the receiver of the predecessor is
\* not compared.
SenderIsPreviousReceiver_skipped(self, prev) == TRUE

\* Line 52: custody passes from the receiver of the predecessor.
SenderIsPreviousReceiver(self, prev) == prev.receiver = self.sender

\* Variant of check_permissions_write: the loop over the document is left
\* out.
check_permissions_write_skipped(self, prev, wf) ==
    IF IsNone(wf) THEN "False"
    ELSE IF ~Has(wf.payload, "permissions") THEN "KeyError"
    ELSE "True"

\* TaskTransaction._check_permissions_write: "True", "False" or "KeyError".
check_permissions_write(self, prev, wf) ==
    IF IsNone(wf) THEN "False"
    ELSE IF ~Has(wf.payload, "permissions") THEN "KeyError"
    ELSE IF \A a \in DOMAIN document(self) :
                /\ a \in DOMAIN permissions(wf)
                /\ in_charge(prev) \in Range(permissions(wf)[a])
         THEN "True" ELSE "False"

\* TaskTransaction._check_process_definition: "True", "False" or "KeyError".
check_process_definition(self, prev, wf) ==
    IF ~Has(wf.payload, "processes") THEN "KeyError"
    ELSE IF IsNone(prev) THEN "True"
    ELSE IF in_charge(prev) \notin DOMAIN processes(wf) THEN "KeyError"
    ELSE IF in_charge(self) \notin Range(processes(wf)[in_charge(prev)])
         THEN "False" ELSE "True"

\* Variant of ChainOutcome: the receiver is not compared with the key of
\* in_charge (lines 64-67 left out).
ChainOutcome_noreceiver(self, prev, wf) ==
    IF IsNone(prev) THEN "ValueError"
    ELSE IF ~Has(prev.payload, "workflow_id") THEN "KeyError"
    ELSE IF workflow_ID(self) # workflow_ID(prev) THEN "False"
    ELSE IF IsNone(wf) THEN "AttributeError"
    ELSE IF workflow_ID(self) # workflow_ID(wf) THEN "False"
    ELSE IF ~SenderIsPreviousReceiver(self, prev) THEN "False"
    ELSE IF ~Has(prev.payload, "in_charge") THEN "KeyError"
    ELSE IF in_charge(prev)[1] # self.sender THEN "False"
    ELSE IF check_permissions_write(self, prev, wf) # "True"
         THEN check_permissions_write(self, prev, wf)
    ELSE IF check_process_definition(self, prev, wf) # "True"
         THEN check_process_definition(self, prev, wf)
    ELSE "pass"

\* Variant of ChainOutcome: the test for a missing predecessor (lines 37-40)
\* lets the transaction through.
ChainOutcome_nopredecessor(self, prev, wf) ==
    IF IsNone(prev) THEN "pass"
    ELSE IF ~Has(prev.payload, "workflow_id") THEN "KeyError"
    ELSE IF workflow_ID(self) # workflow_ID(prev) THEN "False"
    ELSE IF IsNone(wf) THEN "AttributeError"
    ELSE IF workflow_ID(self) # workflow_ID(wf) THEN "False"
    ELSE IF ~SenderIsPreviousReceiver(self, prev) THEN "False"
    ELSE IF ~Has(prev.payload, "in_charge") THEN "KeyError"
    ELSE IF in_charge(prev)[1] # self.sender THEN "False"
    ELSE IF in_charge(self)[1] # self.receiver THEN "False"
    ELSE IF check_permissions_write(self, prev, wf) # "True"
         THEN check_permissions_write(self, prev, wf)
    ELSE IF check_process_definition(self, prev, wf) # "True"
         THEN check_process_definition(self, prev, wf)
    ELSE "pass"

\* Variant of ChainOutcome: a missing predecessor is reported as an
\* ordinary failure.
ChainOutcome_noraise(self, prev, wf) ==
    IF IsNone(prev) THEN "False"
    ELSE IF workflow_ID(self) # workflow_ID(prev) THEN "False"
    ELSE IF IsNone(wf) THEN "AttributeError"
    ELSE IF workflow_ID(self) # workflow_ID(wf) THEN "False"
    ELSE IF ~SenderIsPreviousReceiver(self, prev) THEN "False"
    ELSE IF in_charge(prev)[1] # self.sender THEN "False"
    ELSE IF in_charge(self)[1] # self.receiver THEN "False"
    ELSE IF check_permissions_write(self, prev, wf) # "True"
         THEN check_permissions_write(self, prev, wf)
    ELSE IF check_process_definition(self, prev, wf) # "True"
         THEN check_process_definition(self, prev, wf)
    ELSE "pass"

\* validate_transaction from the test for a missing predecessor up to the
\* process-definition check, on the two transactions resolved before.
\* "ValueError" and "False" leave with the lock released; "AttributeError"
\* and "KeyError" are raised by a lookup and leave with the lock still held;
\* "pass" goes on to the duplicate check.
ChainOutcome(self, prev, wf) ==
    IF IsNone(prev) THEN "ValueError"
    ELSE IF ~Has(prev.payload, "workflow_id") THEN "KeyError"
    ELSE IF workflow_ID(self) # workflow_ID(prev) THEN "False"
    ELSE IF IsNone(wf) THEN "AttributeError"
    ELSE IF workflow_ID(self) # workflow_ID(wf) THEN "False"
    ELSE IF ~SenderIsPreviousReceiver(self, prev) THEN "False"
    ELSE IF ~Has(prev.payload, "in_charge") THEN "KeyError"
    ELSE IF in_charge(prev)[1] # self.sender THEN "False"
    ELSE IF in_charge(self)[1] # self.receiver THEN "False"
    ELSE IF check_permissions_write(self, prev, wf) # "True"
         THEN check_permissions_write(self, prev, wf)
    ELSE IF check_process_definition(self, prev, wf) # "True"
         THEN check_process_definition(self, prev, wf)
    ELSE "pass"

\* The logging.warning of validate_transaction on the path ChainOutcome
\* takes; a raised error logs nothing.
ChainWarning(self, prev, wf) ==
    IF IsNone(prev) THEN ""
    ELSE IF ~Has(prev.payload, "workflow_id") THEN ""
    ELSE IF workflow_ID(self) # workflow_ID(prev)
         THEN "Workflow_ID of the new transaction does not match with the previous transaction."
    ELSE IF IsNone(wf) THEN ""
    ELSE IF workflow_ID(self) # workflow_ID(wf)
         THEN "Workflow_ID of the new transaction does not match with the initial transaction."
    ELSE IF ~SenderIsPreviousReceiver(self, prev)
         THEN "Sender is not the receiver of the previous transaction!"
    ELSE IF ~Has(prev.payload, "in_charge") THEN ""
    ELSE IF in_charge(prev)[1] # self.sender
         THEN "Sender is not the current owner of the document flow!"
    ELSE IF in_charge(self)[1] # self.receiver
         THEN "Receiver does not correspond to in_charge flag"
    ELSE IF check_permissions_write(self, prev, wf) = "False"
         THEN "Sender has not the permission to write!"
    ELSE IF check_permissions_write(self, prev, wf) # "True" THEN ""
    ELSE IF check_process_definition(self, prev, wf) = "False"
         THEN "Transaction does not comply to process definition!"
    ELSE ""

\* The committed transactions _check_for_duplicate_transactions looks at
\* before it compares predecessors.
ParallelCandidates(self, chain) ==
    {t \in search_transaction_from_sender(chain, self.sender)
            \cap search_transaction_to_receiver(chain, self.receiver) :
        /\ t.cls \in {"Task", "Workflow"}
        /\ workflow_ID(t) = workflow_ID(self)}

\* TaskTransaction._check_for_duplicate_transactions: "True" when no
\* parallel transaction exists, "False" when one does, "KeyError" when a
\* candidate has no previous_transaction in its payload.
check_for_duplicate_transactions(self, chain) ==
    IF \E t \in ParallelCandidates(self, chain) :
            ~Has(t.payload, "previous_transaction")
    THEN "KeyError"
    ELSE IF \E t \in ParallelCandidates(self, chain) :
            previous_transaction(t) = previous_transaction(self)
         THEN "False" ELSE "True"

\* Variant of list_of_transactions: the pending workflow transactions are
\* not appended.
list_of_transactions_ledger_only(chain, txpool) == get_all_transactions(chain)

\* The list the genesis validation scans: the committed transactions
\* extended by the pending workflow transactions.
list_of_transactions(chain, txpool) ==
    get_all_transactions(chain) \cup get_workflow_transactions(txpool)

\* The workflow transactions among them.
list_of_workflow_transactions(chain, txpool) ==
    {t \in list_of_transactions(chain, txpool) :
        /\ Has(t.payload, "workflow_id")
        /\ t.payload["transaction_type"] = "1"}

\* The uniqueness loop: some listed workflow transaction has the workflow_id.
WorkflowIdTaken(self, chain, txpool) ==
    \E w \in list_of_workflow_transactions(chain, txpool) :
        self.payload["workflow_id"] = w.payload["workflow_id"]

\* The loops over processes and permissions: "pass", "False" (released) or
\* "KeyError" (a payload key is missing; the lock stays held).
StructureOutcome(self) ==
    IF ~Has(self.payload, "processes") THEN "KeyError"
    ELSE IF \E s \in DOMAIN processes(self) :
                \/ ~check_pid_well_formedness(s)
                \/ \E r \in Range(processes(self)[s]) :
                       ~check_pid_well_formedness(r)
         THEN "False"
    ELSE IF ~Has(self.payload, "document") \/ ~Has(self.payload, "permissions")
         THEN "KeyError"
    ELSE IF \E a \in DOMAIN permissions(self) :
                \/ \E p \in Range(permissions(self)[a]) :
                       ~check_pid_well_formedness(p)
                \/ a \notin DOMAIN document(self)
         THEN "False"
    ELSE "pass"

\* The malformed PIDs the loops of the genesis validation can stop at.
MalformedPids(self) ==
    {p \in DOMAIN processes(self) : ~check_pid_well_formedness(p)}
    \cup UNION {{p \in Range(processes(self)[s]) : ~check_pid_well_formedness(p)} :
                   s \in DOMAIN processes(self)}
    \cup UNION {{p \in Range(permissions(self)[a]) : ~check_pid_well_formedness(p)} :
                   a \in DOMAIN permissions(self)}

\* What the loops over processes and permissions log: the warning of the
\* PID check that stopped them; the loops themselves log nothing.
StructureWarning(self) ==
    IF StructureOutcome(self) # "False" THEN ""
    ELSE IF MalformedPids(self) = {} THEN ""
    ELSE pid_warning(CHOOSE p \in MalformedPids(self) : TRUE)

\* WorkflowTransaction.validate_transaction between acquire() and the
\* common part: the type test, the uniqueness scan, then the loops.  "pass"
\* goes on to validate_transaction_common, "False" leaves with the lock
\* released, "KeyError" with the lock still held.
WorkflowOutcome(self, chain, txpool) ==
    IF ~WorkflowTypeOk(self) THEN "False"
    ELSE IF ~Has(self.payload, "workflow_id") THEN "KeyError"
    ELSE IF WorkflowIdTaken(self, chain, txpool) THEN "False"
    ELSE StructureOutcome(self)

\* What it logs on that path: the uniqueness scan logs nothing.
WorkflowWarning(self, chain, txpool) ==
    IF ~WorkflowTypeOk(self) THEN "Transaction has wrong transaction type"
    ELSE IF ~Has(self.payload, "workflow_id") THEN ""
    ELSE IF WorkflowIdTaken(self, chain, txpool) THEN ""
    ELSE StructureWarning(self)

\* validate_transaction_common hands over to the signature check of the
\* base class only when in_charge is well-formed.
SignatureInvoked(self) ==
    /\ Has(self.payload, "in_charge")
    /\ check_pid_well_formedness(in_charge(self))

\* What validate_transaction_common logs: the warning of the PID check, or
\* the reason the base class gives for a signature that does not verify.
CommonWarning(self) ==
    IF ~Has(self.payload, "in_charge") THEN ""
    ELSE IF ~check_pid_well_formedness(in_charge(self))
         THEN pid_warning(in_charge(self))
    ELSE IF verify_signature(self) THEN "" ELSE "Invalid signature"

\* validate_transaction_common: "True", "False" or "KeyError".
CommonOutcome(self) ==
    IF ~Has(self.payload, "in_charge") THEN "KeyError"
    ELSE IF ~check_pid_well_formedness(in_charge(self)) THEN "False"
    ELSE IF verify_signature(self) THEN "True" ELSE "False"

\* ------------------------------------------------------------------ state
VARIABLES
    ledger,      \* the committed transactions of the blockchain
    pool,        \* the pending transactions of the TxPool
    lock,        \* TaskTransaction._validation_lock: 0 when free, else the
                 \* thread whose acquire() locked it
    pc,          \* where each thread is in its validate_transaction call
    tx,          \* the transaction (self) each thread validates
    prev,        \* local previous_transaction of the call
    wf,          \* local workflow_transaction of the call
    result,      \* how the call ended: "True", "False" or the error raised
    moved,       \* history: the ledger or the pool changed (a block was
                 \* committed, a transaction was admitted) after the call
                 \* took the lock, that is since it began to read them
    sequential,  \* history: no call has begun while another call was
                 \* running or a validated transaction was not yet committed
    calls,       \* history: the number of calls made so far
    verified,    \* history: the call has invoked the signature check
    log,         \* the warning the call has logged, "" when none
    \* one call of _check_pid_well_formedness
    pid_arg,     \* the PID handed to the check
    pid_ret,     \* what the check returned, "none" before it has run
    \* Menu
    fast_exit,   \* Menu.fast_exit
    menu_pc,     \* where Menu.show is
    error_message, \* Menu.error_message
    inputs_read, \* history: the number of inputs show has read
    invoked,     \* history: the number of option callbacks show has invoked
    \* DocTransactionWizard
    wallet,      \* wallet_list: the entries of the wallet, in order
    isInitial,   \* DocTransactionWizard.isInitial
    wiz_pc,      \* where DocTransactionWizard.show is
    chosen_key, chosen_receiver, chosen_incharge,
    chosen_payload_attribute, chosen_payload,
    payload_json, process_json, permissionData_json,   \* locals of show
    new_transaction    \* local of show: the transaction it has given to
                       \* network_interface.sendTransaction

\* The state of the validators.
validationvars == <<ledger, pool, lock, pc, tx, prev, wf, result, moved, sequential,
                    calls, verified, log>>

\* The state of the PID check run on its own.
pidvars == <<pid_arg, pid_ret>>

\* The state of the menu.
menuvars == <<fast_exit, menu_pc, error_message, inputs_read, invoked>>

\* The state of the wizard.
wizardvars == <<wallet, isInitial, wiz_pc, chosen_key, chosen_receiver, chosen_incharge,
                chosen_payload_attribute, chosen_payload, payload_json, process_json,
                permissionData_json, new_transaction>>

\* The state of the console client.
clientvars == <<menuvars, wizardvars>>

vars == <<validationvars, pidvars, clientvars>>

\* The warnings a validation can log.
Warnings ==
    {"Transaction has wrong transaction type",
     "Workflow_ID of the new transaction does not match with the previous transaction.",
     "Workflow_ID of the new transaction does not match with the initial transaction.",
     "Sender is not the receiver of the previous transaction!",
     "Sender is not the current owner of the document flow!",
     "Receiver does not correspond to in_charge flag",
     "Sender has not the permission to write!",
     "Transaction does not comply to process definition!",
     "Duplicated transaction found!",
     "Number in PID wrong!",
     "Public Key in PID is not a key!",
     "Invalid signature"}

\* Positions between acquire() and release().
InLock == {"resolve", "dup", "scan"}

Results == {"True", "False", "ValueError", "AttributeError", "KeyError"}

TypeOK ==
    /\ ledger \subseteq DeepTransactions
    /\ pool \subseteq DeepTransactions
    /\ lock \in {0} \cup Threads
    /\ pc \in [Threads -> {"idle", "acquire", "common", "done"} \cup InLock]
    /\ tx \in [Threads -> DeepTransactions \cup {NoneTx}]
    /\ prev \in [Threads -> DeepTransactions \cup {NoneTx}]
    /\ wf \in [Threads -> DeepTransactions \cup {NoneTx}]
    /\ result \in [Threads -> Results \cup {"none"}]
    /\ moved \in [Threads -> BOOLEAN]
    /\ sequential \in BOOLEAN
    /\ calls \in Nat
    /\ verified \in [Threads -> BOOLEAN]
    /\ log \in [Threads -> Warnings \cup {""}]

\* No validation has begun.
ValidationIdle ==
    /\ ledger = {}
    /\ pool = {}
    /\ lock = 0
    /\ pc = [t \in Threads |-> "idle"]
    /\ tx = [t \in Threads |-> NoneTx]
    /\ prev = [t \in Threads |-> NoneTx]
    /\ wf = [t \in Threads |-> NoneTx]
    /\ result = [t \in Threads |-> "none"]
    /\ moved = [t \in Threads |-> FALSE]
    /\ sequential = TRUE
    /\ calls = 0
    /\ verified = [t \in Threads |-> FALSE]
    /\ log = [t \in Threads |-> ""]

\* The PID check is not run on its own.
PidIdle ==
    /\ pid_arg = <<>>
    /\ pid_ret = "none"

\* No menu is shown.
MenuIdle ==
    /\ fast_exit = FALSE
    /\ menu_pc = "closed"
    /\ error_message = ""
    /\ inputs_read = 0
    /\ invoked = 0

\* No wizard runs.
WizardIdle ==
    /\ isInitial = FALSE
    /\ wiz_pc = "off"
    /\ chosen_key = ""
    /\ chosen_receiver = ""
    /\ chosen_incharge = ""
    /\ chosen_payload_attribute = ""
    /\ chosen_payload = ""
    /\ payload_json = EmptyDict
    /\ process_json = EmptyDict
    /\ permissionData_json = EmptyDict
    /\ new_transaction = NoneTx

\* The validators at work in a node: no client is attached.
Init ==
    /\ ValidationIdle
    /\ PidIdle
    /\ MenuIdle
    /\ WizardIdle
    /\ wallet = <<>>

\* Variant of LockFree: acquire() never blocks.
LockFree_always(l) == TRUE

\* The lock can be taken.
LockFree(l) == l = 0

\* The call ends with outcome r; release tells whether this exit path calls
\* release() first.
Finish(t, r, release) ==
    /\ pc' = [pc EXCEPT ![t] = "done"]
    /\ result' = [result EXCEPT ![t] = r]
    /\ lock' = IF release THEN 0 ELSE lock

\* Exit paths of the locked part that release the lock before leaving.
Releases(r) == r \in {"False", "ValueError"}

\* A thread calls x.validate_transaction(crypto_helper, blockchain).  Idle
\* threads do not differ, so the call goes to the first idle one.
Call(t, x) ==
    /\ pc[t] = "idle"
    /\ \A u \in Threads : u < t => pc[u] # "idle"
    /\ calls < MaxCalls
    /\ calls' = calls + 1
    /\ pc' = [pc EXCEPT ![t] = "acquire"]
    /\ tx' = [tx EXCEPT ![t] = x]
    /\ sequential' = (sequential /\ pool = {} /\ \A u \in Threads \ {t} : pc[u] = "idle")
    /\ UNCHANGED <<ledger, pool, lock, prev, wf, result, moved, verified, log>>
    /\ UNCHANGED <<pidvars, clientvars>>

\* Variant of Acquire: a lock that is taken makes the call give up with
\* False instead of waiting.
Acquire_trylock(t) ==
    /\ pc[t] = "acquire"
    /\ IF LockFree(lock)
       THEN /\ lock' = t
            /\ pc' = [pc EXCEPT ![t] = IF tx[t].cls = "Workflow" THEN "scan" ELSE "resolve"]
            /\ UNCHANGED result
       ELSE /\ pc' = [pc EXCEPT ![t] = "done"]
            /\ result' = [result EXCEPT ![t] = "False"]
            /\ UNCHANGED lock
    /\ UNCHANGED <<ledger, pool, tx, prev, wf, moved, sequential, calls, verified, log>>
    /\ UNCHANGED <<pidvars, clientvars>>

\* TaskTransaction._validation_lock.acquire(): blocks while it is locked.
Acquire(t) ==
    /\ pc[t] = "acquire"
    /\ LockFree(lock)
    /\ lock' = t
    /\ pc' = [pc EXCEPT ![t] = IF tx[t].cls = "Workflow" THEN "scan" ELSE "resolve"]
    /\ UNCHANGED <<ledger, pool, tx, prev, wf, result, moved, sequential, calls, verified, log>>
    /\ UNCHANGED <<pidvars, clientvars>>

\* Variant of Resolve: a failing check logs its warning but the return
\* after it is missing, so the call goes on to the next check.
Resolve_noreturn(t) ==
    /\ pc[t] = "resolve"
    /\ IF ~TaskTypeOk(tx[t])
       THEN /\ Finish(t, "False", TRUE)
            /\ log' = [log EXCEPT ![t] = "Transaction has wrong transaction type"]
            /\ UNCHANGED <<prev, wf>>
       ELSE IF ~(Has(tx[t].payload, "previous_transaction")
                 /\ Has(tx[t].payload, "workflow_transaction"))
       THEN /\ Finish(t, "KeyError", FALSE)
            /\ UNCHANGED <<prev, wf, log>>
       ELSE LET p == get_transaction(ledger, previous_transaction(tx[t]))
                w == get_transaction(ledger, workflow_transaction(tx[t]))
                r == ChainOutcome(tx[t], p, w)
            IN  /\ prev' = [prev EXCEPT ![t] = p]
                /\ wf' = [wf EXCEPT ![t] = w]
                /\ log' = [log EXCEPT ![t] = ChainWarning(tx[t], p, w)]
                /\ IF r \in {"pass", "False"}
                   THEN /\ pc' = [pc EXCEPT ![t] = "dup"]
                        /\ UNCHANGED <<lock, result>>
                   ELSE Finish(t, r, Releases(r))
    /\ UNCHANGED <<ledger, pool, tx, moved, sequential, calls, verified>>
    /\ UNCHANGED <<pidvars, clientvars>>

\* TaskTransaction.validate_transaction from the type test to the
\* process-definition check: the two blockchain.get_transaction lookups and
\* the checks on what they found, missing predecessor first.
Resolve(t) ==
    /\ pc[t] = "resolve"
    /\ IF ~TaskTypeOk(tx[t])
       THEN /\ Finish(t, "False", TRUE)
            /\ log' = [log EXCEPT ![t] = "Transaction has wrong transaction type"]
            /\ UNCHANGED <<prev, wf>>
       ELSE IF ~(Has(tx[t].payload, "previous_transaction")
                 /\ Has(tx[t].payload, "workflow_transaction"))
       THEN /\ Finish(t, "KeyError", FALSE)
            /\ UNCHANGED <<prev, wf, log>>
       ELSE LET p == get_transaction(ledger, previous_transaction(tx[t]))
                w == get_transaction(ledger, workflow_transaction(tx[t]))
                r == ChainOutcome(tx[t], p, w)
            IN  /\ prev' = [prev EXCEPT ![t] = p]
                /\ wf' = [wf EXCEPT ![t] = w]
                /\ log' = [log EXCEPT ![t] = ChainWarning(tx[t], p, w)]
                /\ IF r = "pass"
                   THEN /\ pc' = [pc EXCEPT ![t] = "dup"]
                        /\ UNCHANGED <<lock, result>>
                   ELSE Finish(t, r, Releases(r))
    /\ UNCHANGED <<ledger, pool, tx, moved, sequential, calls, verified>>
    /\ UNCHANGED <<pidvars, clientvars>>

\* Variant of DuplicateCheck: the release of line 85 is missing, so the
\* common part runs with the lock held.
DuplicateCheck_hold(t) ==
    /\ pc[t] = "dup"
    /\ LET r == check_for_duplicate_transactions(tx[t], ledger) IN
       IF r = "True"
       THEN /\ pc' = [pc EXCEPT ![t] = "common"]
            /\ UNCHANGED <<lock, result>>
       ELSE Finish(t, r, Releases(r))
    /\ log' = [log EXCEPT ![t] = IF check_for_duplicate_transactions(tx[t], ledger) = "False"
                               THEN "Duplicated transaction found!" ELSE ""]
    /\ UNCHANGED <<ledger, pool, tx, prev, wf, moved, sequential, calls, verified>>
    /\ UNCHANGED <<pidvars, clientvars>>

\* The duplicate check and, when it passes, the release before the common
\* part.
DuplicateCheck(t) ==
    /\ pc[t] = "dup"
    /\ LET r == check_for_duplicate_transactions(tx[t], ledger) IN
       IF r = "True"
       THEN /\ pc' = [pc EXCEPT ![t] = "common"]
            /\ lock' = 0
            /\ UNCHANGED result
       ELSE Finish(t, r, Releases(r))
    /\ log' = [log EXCEPT ![t] = IF check_for_duplicate_transactions(tx[t], ledger) = "False"
                               THEN "Duplicated transaction found!" ELSE ""]
    /\ UNCHANGED <<ledger, pool, tx, prev, wf, moved, sequential, calls, verified>>
    /\ UNCHANGED <<pidvars, clientvars>>

\* Variant of UniquenessScan: get_all_transactions hands out the list the
\* ledger itself keeps, so that the += of line 224 extends the ledger.
UniquenessScan_aliased(t) ==
    /\ pc[t] = "scan"
    /\ ledger' = IF WorkflowTypeOk(tx[t]) THEN list_of_transactions(ledger, pool)
                 ELSE ledger
    /\ LET r == WorkflowOutcome(tx[t], ledger, pool) IN
       IF r = "pass"
       THEN /\ pc' = [pc EXCEPT ![t] = "common"]
            /\ lock' = 0
            /\ UNCHANGED result
       ELSE Finish(t, r, Releases(r))
    /\ log' = [log EXCEPT ![t] = WorkflowWarning(tx[t], ledger, pool)]
    /\ UNCHANGED <<pool, tx, prev, wf, moved, sequential, calls, verified>>
    /\ UNCHANGED <<pidvars, clientvars>>

\* WorkflowTransaction.validate_transaction between acquire() and the
\* common part: the type test, the scan of ledger and pool for the
\* workflow_id, the PID and permission-key loops and, when they pass, the
\* release.
UniquenessScan(t) ==
    /\ pc[t] = "scan"
    /\ LET r == WorkflowOutcome(tx[t], ledger, pool) IN
       IF r = "pass"
       THEN /\ pc' = [pc EXCEPT ![t] = "common"]
            /\ lock' = 0
            /\ UNCHANGED result
       ELSE Finish(t, r, Releases(r))
    /\ log' = [log EXCEPT ![t] = WorkflowWarning(tx[t], ledger, pool)]
    /\ UNCHANGED <<ledger, pool, tx, prev, wf, moved, sequential, calls, verified>>
    /\ UNCHANGED <<pidvars, clientvars>>

\* validate_transaction_common, after the lock was released: the
\* well-formedness of in_charge, then the signature check of the base class,
\* whose answer is the result.
Common(t) ==
    /\ pc[t] = "common"
    /\ pc' = [pc EXCEPT ![t] = "done"]
    /\ result' = [result EXCEPT ![t] = CommonOutcome(tx[t])]
    /\ verified' = [verified EXCEPT ![t] = SignatureInvoked(tx[t])]
    /\ log' = [log EXCEPT ![t] = CommonWarning(tx[t])]
    /\ UNCHANGED <<ledger, pool, lock, tx, prev, wf, moved, sequential, calls>>
    /\ UNCHANGED <<pidvars, clientvars>>

\* The caller takes the outcome: a transaction that validated true goes to
\* the pending pool, any other is dropped.
Return(t) ==
    /\ pc[t] = "done"
    /\ pool' = IF result[t] = "True" THEN pool \cup {tx[t]} ELSE pool
    /\ pc' = [pc EXCEPT ![t] = "idle"]
    /\ tx' = [tx EXCEPT ![t] = NoneTx]
    /\ prev' = [prev EXCEPT ![t] = NoneTx]
    /\ wf' = [wf EXCEPT ![t] = NoneTx]
    /\ result' = [result EXCEPT ![t] = "none"]
    /\ moved' = [u \in Threads |->
                   IF u = t THEN FALSE
                   ELSE moved[u] \/ (pc[u] \notin {"idle", "acquire"} /\ pool' # pool)]
    /\ verified' = [verified EXCEPT ![t] = FALSE]
    /\ log' = [log EXCEPT ![t] = ""]
    /\ UNCHANGED <<ledger, lock, sequential, calls>>
    /\ UNCHANGED <<pidvars, clientvars>>

\* Block assembly moves a pending transaction into the ledger.
Commit ==
    /\ \E x \in pool :
        /\ ledger' = ledger \cup {x}
        /\ pool' = pool \ {x}
    /\ moved' = [t \in Threads |-> pc[t] \notin {"idle", "acquire"}]
    /\ UNCHANGED <<lock, pc, tx, prev, wf, result, sequential, calls, verified, log>>
    /\ UNCHANGED <<pidvars, clientvars>>

\* One step of one validation call.
Step(t) ==
    \/ Acquire(t)
    \/ Resolve(t)
    \/ DuplicateCheck(t)
    \/ UniquenessScan(t)
    \/ Common(t)

Next ==
    \/ \E t \in Threads : \E x \in Transactions : Call(t, x)
    \/ \E t \in Threads : Step(t)
    \/ \E t \in Threads : Return(t)
    \/ Commit

Spec == Init /\ [][Next]_vars

\* Call with the longer budget of calls.
DeepCall(t, x) ==
    /\ pc[t] = "idle"
    /\ \A u \in Threads : u < t => pc[u] # "idle"
    /\ calls < MaxDeepCalls
    /\ calls' = calls + 1
    /\ pc' = [pc EXCEPT ![t] = "acquire"]
    /\ tx' = [tx EXCEPT ![t] = x]
    /\ sequential' = (sequential /\ pool = {} /\ \A u \in Threads \ {t} : pc[u] = "idle")
    /\ UNCHANGED <<ledger, pool, lock, prev, wf, result, moved, verified, log>>
    /\ UNCHANGED <<pidvars, clientvars>>

DeepNext ==
    \/ \E t \in Threads : \E x \in DeepTransactions : DeepCall(t, x)
    \/ \E t \in Threads : Step(t)
    \/ \E t \in Threads : Return(t)
    \/ Commit

\* The same program followed over one more call, for the properties of
\* ledgers that take four validations to build.
DeepSpec == Init /\ [][DeepNext]_vars

\* Fair scheduling: a thread that can take its next step eventually takes it.
FairSpec == Spec /\ \A t \in Threads : WF_vars(Step(t))

\* ------------------------------------------------- the PID check alone
\* The longest split a PID given to the check has.
MaxPidParts == 3

\* What a part of a PID can be: a key, a string int() parses, or neither.
PidSegments == ValidKeys \cup IntStrings \cup {"x"}

\* The PIDs given to the check: PID.split(sep='_') has at least one part.
PidInputs == UNION {[1..n -> PidSegments] : n \in 1..MaxPidParts}

PidInit ==
    /\ ValidationIdle
    /\ MenuIdle
    /\ WizardIdle
    /\ wallet = <<>>
    /\ pid_arg \in PidInputs
    /\ pid_ret = "none"

\* self._check_pid_well_formedness(PID) runs and returns.
CheckPid ==
    /\ pid_ret = "none"
    /\ pid_ret' = IF check_pid_well_formedness(pid_arg) THEN "True" ELSE "False"
    /\ UNCHANGED <<pid_arg, validationvars, clientvars>>

PidNext == CheckPid

\* _check_pid_well_formedness applied to one PID.
PidSpec == PidInit /\ [][PidNext]_vars

\* ------------------------------------------------------ the console client
\* The number of inputs a behaviour gives to the menu.
MaxInputs == 2

\* The longest list of PIDs the user types for one owner or one attribute.
MaxPidList == 1

\* The entries of a wallet: label, public key, private key.
Alice == [label |-> "alice", public_key |-> "Ka", private_key |-> "secretA"]
Bob == [label |-> "bob", public_key |-> "Kb", private_key |-> "secretB"]

\* wallet_to_list() of the wallets the client is started with.
Wallets == {<<>>, <<Alice>>, <<Alice, Bob>>}

\* The options of the menu: the two wizards of main_menu and the back option
\* that __append_back_menu_item adds.
back_option_key == "q"
menu_items == {"2", "3", back_option_key}

\* What the user types at the menu prompt.
MenuInputs == menu_items \cup {"x"}

\* What the user types when asked for a wallet index.
KeyInputs == {"", "1", "2", "3", "x"}

\* int() on the index strings.
IndexOf == ("1" :> 1) @@ ("2" :> 2) @@ ("3" :> 3)

\* What the user types for a receiver, an attribute name and its value.
ReceiverInputs == {"", "Kb"}
AttributeInputs == {"", "title"}
PayloadInputs == {"", "draft"}

\* What the user types for a PID; the wizard does not split it.
PidStrings == {"Ka_0", "Kb_1"}

\* The non-empty lists of PIDs the user can type before the empty input.
PidLists(from) == UNION {[1..n -> from] : n \in 1..MaxPidList}

\* TransactionWizard.validate_sender_input: the input is the index of a
\* wallet entry.
validate_sender_input(usr_input) ==
    /\ usr_input \in DOMAIN IndexOf
    /\ IndexOf[usr_input] \in 1..Len(wallet)

\* DocTransactionWizard.__validate_string_zero_length
validate_string_zero_length(usr_input) == usr_input = ""

\* datastructure TaskTransaction.__init__, reached through from_json and
\* from_dict: whatever the payload says, transaction_type becomes '2'.
TaskTransaction_init(sender, receiver, payload, signature) ==
    [cls |-> "Task", sender |-> sender, receiver |-> receiver,
     payload |-> [payload EXCEPT !["transaction_type"] = "2"],
     signature |-> signature]

\* The dict show builds from what the user entered (lines 316-353).
transaction_json(public_key, private_key) ==
    [receiver |-> public_key, sender |-> private_key, signature |-> "None",
     payload |->
        IF isInitial
        THEN ("workflow-id" :> "0") @@ ("transaction_type" :> "1")
             @@ ("document" :> payload_json) @@ ("in_charge" :> chosen_incharge)
             @@ ("processes" :> process_json)
             @@ ("permissions" :> permissionData_json)
        ELSE ("workflow-id" :> "0") @@ ("transaction_type" :> "0")
             @@ ("document" :> (chosen_payload_attribute :> chosen_payload))
             @@ ("in_charge" :> chosen_incharge)]

\* sign_transaction: the signature the crypto helper makes with a key.
Signed(key) == <<"signature", key>>

\* The client is started with some wallet and shows a menu.
ClientInit ==
    /\ ValidationIdle
    /\ PidIdle
    /\ WizardIdle
    /\ wallet \in Wallets
    /\ fast_exit \in BOOLEAN
    /\ menu_pc = "closed"
    /\ error_message = ""
    /\ inputs_read = 0
    /\ invoked = 0

\* Menu.show is entered.
Show ==
    /\ menu_pc = "closed"
    /\ menu_pc' = "input"
    /\ UNCHANGED <<fast_exit, error_message, inputs_read, invoked>>
    /\ UNCHANGED <<validationvars, pidvars, wizardvars>>

\* One round of the loop of Menu.show up to the option callback: the input
\* is read; the back option leaves, a listed option calls its function (a
\* wizard, with isInitial for option 2), any other input sets the error
\* message and the loop goes round.
ReadInput(input_value) ==
    /\ menu_pc = "input"
    /\ inputs_read < MaxInputs
    /\ inputs_read' = inputs_read + 1
    /\ IF input_value \in menu_items
       THEN IF input_value = back_option_key
            THEN /\ menu_pc' = "left"
                 /\ UNCHANGED <<error_message, invoked, isInitial, wiz_pc>>
            ELSE /\ menu_pc' = "callback"
                 /\ invoked' = invoked + 1
                 /\ isInitial' = (input_value = "2")
                 /\ wiz_pc' = "start"
                 /\ UNCHANGED error_message
       ELSE /\ error_message' = "Wrong input. Please select one of [2,3,q]."
            /\ UNCHANGED <<menu_pc, invoked, isInitial, wiz_pc>>
    /\ UNCHANGED <<fast_exit, wallet, chosen_key, chosen_receiver, chosen_incharge,
                   chosen_payload_attribute, chosen_payload, payload_json,
                   process_json, permissionData_json, new_transaction>>
    /\ UNCHANGED <<validationvars, pidvars>>

\* The rest of the round once the callback has returned: the error message
\* is cleared and fast_exit leaves the loop.
AfterCallback ==
    /\ menu_pc = "callback"
    /\ wiz_pc = "returned"
    /\ wiz_pc' = "off"
    /\ error_message' = ""
    /\ menu_pc' = IF fast_exit THEN "left" ELSE "input"
    /\ UNCHANGED <<fast_exit, inputs_read, invoked>>
    /\ UNCHANGED <<wallet, isInitial, chosen_key, chosen_receiver, chosen_incharge,
                   chosen_payload_attribute, chosen_payload, payload_json,
                   process_json, permissionData_json, new_transaction>>
    /\ UNCHANGED <<validationvars, pidvars>>

\* What every step of the wizard leaves alone.
WizardFrame ==
    /\ menu_pc = "callback"
    /\ UNCHANGED <<wallet, isInitial>>
    /\ UNCHANGED <<validationvars, pidvars, menuvars>>

\* show returns: its locals are gone.
WizardReturns ==
    /\ wiz_pc' = "returned"
    /\ chosen_key' = ""
    /\ chosen_receiver' = ""
    /\ chosen_incharge' = ""
    /\ chosen_payload_attribute' = ""
    /\ chosen_payload' = ""
    /\ payload_json' = EmptyDict
    /\ process_json' = EmptyDict
    /\ permissionData_json' = EmptyDict
    /\ new_transaction' = NoneTx

\* DocTransactionWizard.show begins: an empty wallet skips the wizard.
Start ==
    /\ wiz_pc = "start"
    /\ wiz_pc' = IF Len(wallet) = 0 THEN "anykey" ELSE "key"
    /\ UNCHANGED <<chosen_key, chosen_receiver, chosen_incharge,
                   chosen_payload_attribute, chosen_payload, payload_json,
                   process_json, permissionData_json, new_transaction>>
    /\ WizardFrame

\* ask_for_key_from_wallet and the loop on validate_sender_input: the empty
\* input leaves the wizard, an input that is no index is asked again.
AskKey(usr_input) ==
    /\ wiz_pc = "key"
    /\ IF usr_input = ""
       THEN WizardReturns
       ELSE /\ IF validate_sender_input(usr_input)
               THEN chosen_key' = usr_input /\ wiz_pc' = "receiver"
               ELSE UNCHANGED <<chosen_key, wiz_pc>>
            /\ UNCHANGED <<chosen_receiver, chosen_incharge,
                           chosen_payload_attribute, chosen_payload, payload_json,
                           process_json, permissionData_json, new_transaction>>
    /\ WizardFrame

\* ask_for_receiver until the input is not empty.
AskReceiver(usr_input) ==
    /\ wiz_pc = "receiver"
    /\ IF validate_string_zero_length(usr_input)
       THEN UNCHANGED <<chosen_receiver, wiz_pc>>
       ELSE chosen_receiver' = usr_input /\ wiz_pc' = "incharge"
    /\ UNCHANGED <<chosen_key, chosen_incharge, chosen_payload_attribute,
                   chosen_payload, payload_json, process_json,
                   permissionData_json, new_transaction>>
    /\ WizardFrame

\* __ask_for_incharge until the input is not empty.
AskIncharge(usr_input) ==
    /\ wiz_pc = "incharge"
    /\ IF validate_string_zero_length(usr_input)
       THEN UNCHANGED <<chosen_incharge, wiz_pc>>
       ELSE /\ chosen_incharge' = usr_input
            /\ wiz_pc' = IF isInitial THEN "document" ELSE "payload"
    /\ UNCHANGED <<chosen_key, chosen_receiver, chosen_payload_attribute,
                   chosen_payload, payload_json, process_json,
                   permissionData_json, new_transaction>>
    /\ WizardFrame

\* A task: attribute name and value are asked again while both are empty.
AskPayload(attribute, value) ==
    /\ wiz_pc = "payload"
    /\ IF validate_string_zero_length(attribute) /\ validate_string_zero_length(value)
       THEN UNCHANGED <<chosen_payload_attribute, chosen_payload, wiz_pc>>
       ELSE /\ chosen_payload_attribute' = attribute
            /\ chosen_payload' = value
            /\ wiz_pc' = "send"
    /\ UNCHANGED <<chosen_key, chosen_receiver, chosen_incharge, payload_json,
                   process_json, permissionData_json, new_transaction>>
    /\ WizardFrame

\* A genesis: one round of the loop that collects the document; an empty
\* attribute name or an empty value ends it.
AskDocument(attribute, value) ==
    /\ wiz_pc = "document"
    /\ IF validate_string_zero_length(attribute) \/ validate_string_zero_length(value)
       THEN wiz_pc' = "processes" /\ UNCHANGED payload_json
       ELSE /\ payload_json' = (attribute :> value) @@ payload_json
            /\ UNCHANGED wiz_pc
    /\ UNCHANGED <<chosen_key, chosen_receiver, chosen_incharge,
                   chosen_payload_attribute, chosen_payload, process_json,
                   permissionData_json, new_transaction>>
    /\ WizardFrame

\* The first process: an owner that is not empty and the receivers typed
\* for it, at least one, up to the empty input.
AskProcesses(processOwner, process_receiver) ==
    /\ wiz_pc = "processes"
    /\ process_json' = (processOwner :> process_receiver)
    /\ wiz_pc' = "finish"
    /\ UNCHANGED <<chosen_key, chosen_receiver, chosen_incharge,
                   chosen_payload_attribute, chosen_payload, payload_json,
                   permissionData_json, new_transaction>>
    /\ WizardFrame

\* "finish? y/n": asked again until the answer is y or n.
AskFinish(isFinish) ==
    /\ wiz_pc = "finish"
    /\ wiz_pc' = IF isFinish = "y" THEN "permissions"
                 ELSE IF isFinish = "n" THEN "extend" ELSE wiz_pc
    /\ UNCHANGED <<chosen_key, chosen_receiver, chosen_incharge,
                   chosen_payload_attribute, chosen_payload, payload_json,
                   process_json, permissionData_json, new_transaction>>
    /\ WizardFrame

\* The receivers that own no process yet.
NoOwner(d) == UNION {Range(d[key]) : key \in DOMAIN d} \ DOMAIN d

\* One pass over the receivers that own no process yet: each is given the
\* receivers typed for it, or none.
ExtendProcesses ==
    /\ wiz_pc = "extend"
    /\ \E typed \in [NoOwner(process_json) -> PidLists(PidStrings) \cup {<<>>}] :
          process_json' =
              [v \in DOMAIN process_json
                     \cup {u \in NoOwner(process_json) : typed[u] # <<>>} |->
                  IF v \in DOMAIN process_json THEN process_json[v] ELSE typed[v]]
    /\ wiz_pc' = "finish"
    /\ UNCHANGED <<chosen_key, chosen_receiver, chosen_incharge,
                   chosen_payload_attribute, chosen_payload, payload_json,
                   permissionData_json, new_transaction>>
    /\ WizardFrame

\* For every attribute of the document the PIDs typed for it; a PID that
\* owns no process is asked again.
AskPermissions ==
    /\ wiz_pc = "permissions"
    /\ \E typed \in [DOMAIN payload_json ->
                        PidLists(DOMAIN process_json) \cup {<<>>}] :
          permissionData_json' = typed
    /\ wiz_pc' = "send"
    /\ UNCHANGED <<chosen_key, chosen_receiver, chosen_incharge,
                   chosen_payload_attribute, chosen_payload, payload_json,
                   process_json, new_transaction>>
    /\ WizardFrame

\* The transaction is built from the dict, signed and sent.
Send ==
    /\ wiz_pc = "send"
    /\ LET private_key == wallet[IndexOf[chosen_key]].private_key
           public_key == wallet[IndexOf[chosen_key]].public_key
           data_dict == transaction_json(public_key, private_key)
           built == TaskTransaction_init(data_dict.sender, data_dict.receiver,
                                         data_dict.payload, data_dict.signature)
           signed == [built EXCEPT !.signature = Signed(private_key)]
       IN  new_transaction' = signed
    /\ wiz_pc' = "anykey"
    /\ UNCHANGED <<chosen_key, chosen_receiver, chosen_incharge,
                   chosen_payload_attribute, chosen_payload, payload_json,
                   process_json, permissionData_json>>
    /\ WizardFrame

\* 'Press any key to go back to the main menu!'
PressAnyKey ==
    /\ wiz_pc = "anykey"
    /\ WizardReturns
    /\ WizardFrame

ClientNext ==
    \/ Show
    \/ \E input_value \in MenuInputs : ReadInput(input_value)
    \/ AfterCallback
    \/ Start
    \/ \E usr_input \in KeyInputs : AskKey(usr_input)
    \/ \E usr_input \in ReceiverInputs : AskReceiver(usr_input)
    \/ \E usr_input \in PidStrings \cup {""} : AskIncharge(usr_input)
    \/ \E attribute \in AttributeInputs : \E value \in PayloadInputs :
          AskPayload(attribute, value)
    \/ \E attribute \in AttributeInputs : \E value \in PayloadInputs :
          AskDocument(attribute, value)
    \/ \E processOwner \in PidStrings :
          \E process_receiver \in PidLists(PidStrings) :
             AskProcesses(processOwner, process_receiver)
    \/ \E isFinish \in {"y", "n", "x"} : AskFinish(isFinish)
    \/ ExtendProcesses
    \/ AskPermissions
    \/ Send
    \/ PressAnyKey

\* The console client on its own.
ClientSpec == ClientInit /\ [][ClientNext]_vars

\* ----------------------------------------------------------------- claims
IsTask(t) == t.cls = "Task"
IsWorkflow(t) == t.cls = "Workflow"

\* Two distinct task transactions branching from the same predecessor in the
\* same workflow.
Fork(a, b) ==
    /\ IsTask(a) /\ IsTask(b)
    /\ a.transaction_hash # b.transaction_hash
    /\ previous_transaction(a) = previous_transaction(b)
    /\ workflow_ID(a) = workflow_ID(b)

\* C1: No forks.  When every validation ran alone and every transaction that
\* validated true was committed before the next validation began, the ledger
\* never holds two distinct TaskTransactions with the same
\* previous_transaction and workflow_id, whatever their receivers are.
C1_NoForks ==
    sequential => \A a, b \in ledger : ~Fork(a, b)

\* The task transaction x validates true on its own against chain.
ValidAlone(x, chain) ==
    /\ TaskTypeOk(x)
    /\ ChainOutcome(x, get_transaction(chain, previous_transaction(x)),
                       get_transaction(chain, workflow_transaction(x))) = "pass"
    /\ check_for_duplicate_transactions(x, chain) = "True"
    /\ CommonOutcome(x) = "True"

\* Two distinct task transactions with identical previous_transaction,
\* sender and receiver.
ScenarioEPair(a, b) ==
    /\ IsTask(a) /\ IsTask(b)
    /\ a.transaction_hash # b.transaction_hash
    /\ previous_transaction(a) = previous_transaction(b)
    /\ a.sender = b.sender
    /\ a.receiver = b.receiver

\* C2: Scenario E.  When two threads have validated two distinct, otherwise
\* valid TaskTransactions with identical previous_transaction, sender and
\* receiver against the same ledger (neither ledger nor pool changed since
\* either call began to read them), exactly one of the two calls returned
\* true.
C2_ScenarioE_ExactlyOne ==
    \A t, u \in Threads :
        ( /\ t # u
          /\ pc[t] = "done" /\ pc[u] = "done"
          /\ ~moved[t] /\ ~moved[u]
          /\ ScenarioEPair(tx[t], tx[u])
          /\ ValidAlone(tx[t], ledger) /\ ValidAlone(tx[u], ledger) )
        => ((result[t] = "True") # (result[u] = "True"))

\* C3: Workflow-ID uniqueness.  No two distinct committed
\* WorkflowTransactions carry the same workflow_id.
C3_WorkflowIdUnique ==
    \A a, b \in ledger :
        ( /\ IsWorkflow(a) /\ IsWorkflow(b)
          /\ a.transaction_hash # b.transaction_hash )
        => workflow_ID(a) # workflow_ID(b)

\* A different workflow transaction with the workflow_id of x is in txs.
OtherWithSameId(x, txs) ==
    \E w \in txs :
        /\ IsWorkflow(w)
        /\ w.transaction_hash # x.transaction_hash
        /\ workflow_ID(w) = workflow_ID(x)

\* C4: Scenario B.  A WorkflowTransaction validation whose uniqueness scan
\* runs while a different WorkflowTransaction with the same workflow_id is
\* pending in the pool or committed in the ledger ends there, returning
\* false.
C4_ScenarioB ==
    [][ \A t \in Threads :
          ( /\ pc[t] = "scan" /\ pc'[t] # "scan"
            /\ (OtherWithSameId(tx[t], pool) \/ OtherWithSameId(tx[t], ledger)) )
          => (pc'[t] = "done" /\ result'[t] = "False") ]_vars

\* A genesis that passes everything but the uniqueness scan was rejected
\* while its competitor was only pending.
C4_Witness ==
    \E t \in Threads :
        /\ pc[t] = "done" /\ result[t] = "False"
        /\ IsWorkflow(tx[t])
        /\ WorkflowTypeOk(tx[t])
        /\ StructureOutcome(tx[t]) = "pass"
        /\ CommonOutcome(tx[t]) = "True"
        /\ OtherWithSameId(tx[t], pool)
        /\ ~OtherWithSameId(tx[t], ledger)
        /\ tx[t] \notin ledger

\* C5: Scenario C.  A TaskTransaction validation with a valid
\* transaction_type whose previous_transaction did not resolve in the ledger
\* ends by raising the corrupted-chain error (ValueError), not by returning
\* and not with another error.
C5_ScenarioC ==
    \A t \in Threads :
        ( /\ pc[t] = "done"
          /\ IsTask(tx[t])
          /\ TaskTypeOk(tx[t])
          /\ Has(tx[t].payload, "previous_transaction")
          /\ Has(tx[t].payload, "workflow_transaction")
          /\ IsNone(prev[t]) )
        => result[t] = "ValueError"

\* A call ended on a predecessor that is in no block.
C5_Witness ==
    \E t \in Threads :
        /\ pc[t] = "done"
        /\ IsTask(tx[t]) /\ TaskTypeOk(tx[t])
        /\ IsNone(prev[t])
        /\ get_transaction(ledger, previous_transaction(tx[t])) = NoneTx
        /\ result[t] = "ValueError"

\* C6: Lock release on every exit path.  Once a validate_transaction call
\* has ended, by returning or by raising any error, the validation lock is
\* not held by that call.
C6_LockReleasedOnExit ==
    \A t \in Threads : pc[t] = "done" => lock # t

\* C7: Mutual exclusion.  At most one validation call, task and workflow
\* validations together, is between acquire() and release().
C7_MutualExclusion ==
    \A t, u \in Threads :
        (pc[t] \in InLock /\ pc[u] \in InLock) => t = u

\* One call is inside the locked part while another one waits for the lock.
C7_Witness ==
    \E t, u \in Threads :
        /\ pc[t] \in {"dup", "scan"}
        /\ lock = t
        /\ pc[u] = "acquire"

\* C8: Termination without deadlock.  Under fair scheduling every
\* validate_transaction call that has started eventually returns or raises.
C8_Termination ==
    \A t \in Threads : (pc[t] \notin {"idle", "done"}) ~> (pc[t] = "done")

\* C9: Outcome set.  Every call ends by returning true, returning false or
\* raising the corrupted-chain error; no other error is raised.
C9_OutcomeSet ==
    \A t \in Threads :
        pc[t] = "done" => result[t] \in {"True", "False", "ValueError"}

\* T continues the custody of its predecessor in chain.
Continuous(x, chain) ==
    /\ ~IsNone(get_transaction(chain, previous_transaction(x)))
    /\ x.sender = get_transaction(chain, previous_transaction(x)).receiver

\* C10: Chain continuity.  For every TaskTransaction whose validation
\* returned true (the call has just ended, or the transaction is pending or
\* committed), the sender equals the receiver of the ledger transaction its
\* previous_transaction references.
C10_ChainContinuity ==
    /\ \A t \in Threads :
          (pc[t] = "done" /\ IsTask(tx[t]) /\ result[t] = "True")
          => Continuous(tx[t], ledger)
    /\ \A x \in pool \cup ledger : IsTask(x) => Continuous(x, ledger)

\* A task validated true against a committed predecessor whose receiver is
\* its sender.
C10_Witness ==
    \E t \in Threads :
        /\ pc[t] = "done" /\ IsTask(tx[t]) /\ result[t] = "True"
        /\ prev[t] \in ledger
        /\ prev[t].receiver = tx[t].sender

\* The predecessor's in_charge is listed under attribute a in the permissions
\* of the workflow transaction x references, both looked up in chain.
MayWrite(x, a, chain) ==
    LET w == get_transaction(chain, workflow_transaction(x))
        p == get_transaction(chain, previous_transaction(x))
    IN  /\ ~IsNone(w) /\ ~IsNone(p)
        /\ Has(w.payload, "permissions")
        /\ Has(p.payload, "in_charge")
        /\ a \in DOMAIN permissions(w)
        /\ in_charge(p) \in Range(permissions(w)[a])

\* C11: Permission enforcement.  For every TaskTransaction whose validation
\* returned true (the call has just ended, or the transaction is pending or
\* committed) and every attribute name in its document, the attribute is a
\* key of the permissions of the governing WorkflowTransaction and the
\* in_charge of the predecessor is listed under it.
C11_PermissionEnforcement ==
    /\ \A t \in Threads :
          (pc[t] = "done" /\ IsTask(tx[t]) /\ result[t] = "True")
          => \A a \in DOMAIN document(tx[t]) : MayWrite(tx[t], a, ledger)
    /\ \A x \in pool \cup ledger :
          IsTask(x) => \A a \in DOMAIN document(x) : MayWrite(x, a, ledger)

\* A task that writes an attribute validated true.
C11_Witness ==
    \E t \in Threads :
        /\ pc[t] = "done" /\ IsTask(tx[t]) /\ result[t] = "True"
        /\ DOMAIN document(tx[t]) # {}
        /\ \A a \in DOMAIN document(tx[t]) : MayWrite(tx[t], a, ledger)

WorkflowIdFresh(x, txs) ==
    \A y \in txs \ {x} :
        Has(y.payload, "workflow_id") => workflow_ID(y) # workflow_ID(x)

\* C14: Scenario A, genesis acceptance.  A WorkflowTransaction with
\* transaction_type "1", a workflow_id that no other committed or pending
\* transaction carries, only well-formed PIDs in processes and permissions,
\* every permissions key present in document and a signature that verifies
\* validates true, whether or not its payload has further fields such as
\* in_charge.
C14_ScenarioA ==
    \A t \in Threads :
        ( /\ pc[t] = "done"
          /\ IsWorkflow(tx[t])
          /\ WorkflowTypeOk(tx[t])
          /\ Has(tx[t].payload, "workflow_id")
          /\ ~moved[t]
          /\ WorkflowIdFresh(tx[t], ledger \cup pool)
          /\ StructureOutcome(tx[t]) = "pass"
          /\ verify_signature(tx[t]) )
        => result[t] = "True"

\* A check that validate_transaction makes before the signature step does
\* not pass in the call of thread t: the type, the checks on the resolved
\* predecessor and workflow transaction, the duplicate check (told from the
\* ledger when it has not changed since the call read it) or the
\* well-formedness of in_charge.
FailsBeforeSignature(t) ==
    \/ ~TaskTypeOk(tx[t])
    \/ ChainOutcome(tx[t], prev[t], wf[t]) # "pass"
    \/ (~moved[t] /\ check_for_duplicate_transactions(tx[t], ledger) # "True")
    \/ ~check_pid_well_formedness(in_charge(tx[t]))

\* C15: Short-circuit ordering, Scenario D.  Whenever a check before the
\* signature step has failed in a TaskTransaction validation (type,
\* workflow_id match, custody, permissions, process definition, duplicate,
\* PID well-formedness), the call has ended without invoking the signature
\* verification.
C15_ShortCircuit ==
    \A t \in Threads :
        (pc[t] = "done" /\ IsTask(tx[t]) /\ FailsBeforeSignature(t))
        => ~verified[t]

\* Scenario D: a task whose in_charge is no declared successor ended in
\* false at the process-definition check and no signature was verified.
C15_Witness ==
    \E t \in Threads :
        /\ pc[t] = "done" /\ IsTask(tx[t])
        /\ ~IsNone(prev[t]) /\ ~IsNone(wf[t])
        /\ check_permissions_write(tx[t], prev[t], wf[t]) = "True"
        /\ check_process_definition(tx[t], prev[t], wf[t]) = "False"
        /\ result[t] = "False"
        /\ log[t] = "Transaction does not comply to process definition!"
        /\ ~verified[t]

\* A PID with a wrong number of segments, a sequence number that is no
\* integer or a key part that does not decode to a public key.
IsMalformed(PID) ==
    \/ Len(PID) # 2
    \/ PID[2] \notin IntStrings
    \/ PID[1] \notin ValidKeys

\* The in_charge of a task, or a PID in the processes or permissions of a
\* workflow transaction, is malformed.
CarriesMalformedPid(x) ==
    IF IsTask(x) THEN IsMalformed(in_charge(x))
    ELSE /\ Has(x.payload, "processes") /\ Has(x.payload, "permissions")
         /\ \/ \E s \in DOMAIN processes(x) :
                  IsMalformed(s) \/ \E r \in Range(processes(x)[s]) : IsMalformed(r)
            \/ \E a \in DOMAIN permissions(x) :
                  \E p \in Range(permissions(x)[a]) : IsMalformed(p)

\* C16 as stated: every validation of a transaction that carries a
\* malformed PID returns false.
C16_MalformedPidReturnsFalse ==
    \A t \in Threads :
        (pc[t] = "done" /\ CarriesMalformedPid(tx[t])) => result[t] = "False"

\* The call of thread t has come to the PID check: the loops of the genesis
\* validation, or validate_transaction_common of a task.
ReachedPidCheck(t) ==
    IF IsTask(tx[t])
    THEN /\ TaskTypeOk(tx[t])
         /\ ChainOutcome(tx[t], prev[t], wf[t]) = "pass"
         /\ ~moved[t]
         /\ check_for_duplicate_transactions(tx[t], ledger) = "True"
    ELSE /\ WorkflowTypeOk(tx[t])
         /\ Has(tx[t].payload, "workflow_id")
         /\ ~moved[t]
         /\ ~WorkflowIdTaken(tx[t], ledger, pool)
         /\ Has(tx[t].payload, "document")

\* C16, amended: a transaction that carries a malformed PID never validates
\* true, and the PID check raises nothing: a call that comes to the PID
\* check with a malformed PID returns false; a call that an earlier step
\* ends may end in the error that step raises.
C16_MalformedPidNeverTrue ==
    \A t \in Threads :
        (pc[t] = "done" /\ CarriesMalformedPid(tx[t]))
        => /\ result[t] # "True"
           /\ ReachedPidCheck(t) => result[t] = "False"

\* The loops of a genesis validation stopped at a malformed PID and the
\* call returned false.
C16_Witness ==
    \E t \in Threads :
        /\ pc[t] = "done" /\ IsWorkflow(tx[t])
        /\ CarriesMalformedPid(tx[t])
        /\ ReachedPidCheck(t)
        /\ result[t] = "False"
        /\ log[t] = "Number in PID wrong!"

\* C17: Every false result is individually distinguishable.  Every
\* validate_transaction call of a TaskTransaction or WorkflowTransaction
\* that returned false has logged a reason before it returned.
C17_FalseHasReason ==
    \A t \in Threads :
        (pc[t] = "done" /\ result[t] = "False") => log[t] \in Warnings

\* C18: The signature check runs outside the lock.  A TaskTransaction or
\* WorkflowTransaction validation that is about to run
\* validate_transaction_common, which invokes the signature verification,
\* does not hold the validation lock.
C18_SignatureOutsideLock ==
    \A t \in Threads : pc[t] = "common" => lock # t

\* One call is about to verify a signature while another one is inside its
\* critical section.
C18_Witness ==
    \E t, u \in Threads :
        /\ pc[t] = "common" /\ SignatureInvoked(tx[t])
        /\ pc[u] \in InLock /\ lock = u

\* The in_charge of x is among the successors that the processes of w
\* declare for the in_charge of p.
AmongSuccessors(x, p, w) ==
    /\ in_charge(p) \in DOMAIN processes(w)
    /\ in_charge(x) \in Range(processes(w)[in_charge(p)])

\* C19: Process-definition check.  A TaskTransaction validation whose
\* predecessor and workflow transaction resolved returns false whenever the
\* in_charge of the transaction is not among the successors the processes
\* of the workflow transaction declare for the in_charge of the predecessor,
\* also when that in_charge has no entry in processes; and every
\* TaskTransaction that validated true has its in_charge among them.
C19_ProcessDefinition ==
    \A t \in Threads :
        ( /\ pc[t] = "done"
          /\ IsTask(tx[t]) /\ TaskTypeOk(tx[t])
          /\ ~IsNone(prev[t]) /\ ~IsNone(wf[t])
          /\ Has(prev[t].payload, "in_charge")
          /\ Has(wf[t].payload, "processes") )
        => /\ ~AmongSuccessors(tx[t], prev[t], wf[t]) => result[t] = "False"
           /\ result[t] = "True" => AmongSuccessors(tx[t], prev[t], wf[t])

\* C20: Unresolvable workflow reference.  A TaskTransaction validation
\* whose previous_transaction resolved in the ledger while its
\* workflow_transaction did not has returned false, and the call does not
\* hold the validation lock afterwards.
C20_UnresolvableWorkflow ==
    \A t \in Threads :
        ( /\ pc[t] = "done"
          /\ IsTask(tx[t]) /\ TaskTypeOk(tx[t])
          /\ ~IsNone(prev[t])
          /\ IsNone(wf[t]) )
        => (result[t] = "False" /\ lock # t)

\* The key of the in_charge of x's predecessor in chain is the sender of x,
\* and the key of x's own in_charge is its receiver.
CustodyBound(x, chain) ==
    LET p == get_transaction(chain, previous_transaction(x))
    IN  /\ ~IsNone(p)
        /\ Has(p.payload, "in_charge")
        /\ in_charge(p)[1] = x.sender
        /\ in_charge(x)[1] = x.receiver

\* C21: Custody identity binding.  For every TaskTransaction whose
\* validation returned true (the call has just ended, or the transaction is
\* pending or committed), the public-key component of the predecessor's
\* in_charge equals its sender and the public-key component of its own
\* in_charge equals its receiver.
C21_CustodyBinding ==
    /\ \A t \in Threads :
          (pc[t] = "done" /\ IsTask(tx[t]) /\ result[t] = "True")
          => CustodyBound(tx[t], ledger)
    /\ \A x \in pool \cup ledger : IsTask(x) => CustodyBound(x, ledger)

\* A task handed to another party than its sender validated true, bound to
\* the in_charge of its committed predecessor.
C21_Witness ==
    \E t \in Threads :
        /\ pc[t] = "done" /\ IsTask(tx[t]) /\ result[t] = "True"
        /\ prev[t] \in ledger
        /\ tx[t].sender # tx[t].receiver
        /\ in_charge(prev[t])[1] = tx[t].sender
        /\ in_charge(tx[t])[1] = tx[t].receiver

\* The sequence parts that are non-negative integers.
NonNegIntStrings == {"0", "1", "2"}

\* A well-formed PID as the data model defines it: exactly two parts, the
\* second a non-negative integer, the first a valid public key.
WellFormedPid(PID) ==
    /\ Len(PID) = 2
    /\ PID[2] \in NonNegIntStrings
    /\ PID[1] \in ValidKeys

\* Every key and successor in processes and every PID in permissions of x is
\* well-formed, and every key of permissions is a key of document.
GenesisStructure(x) ==
    /\ Has(x.payload, "processes") /\ Has(x.payload, "permissions")
    /\ Has(x.payload, "document")
    /\ \A s \in DOMAIN processes(x) :
          WellFormedPid(s) /\ \A r \in Range(processes(x)[s]) : WellFormedPid(r)
    /\ \A a \in DOMAIN permissions(x) :
          /\ \A q \in Range(permissions(x)[a]) : WellFormedPid(q)
          /\ a \in DOMAIN document(x)

\* C22: Genesis structural invariant.  For every WorkflowTransaction whose
\* validation returned true (the call has just ended, or the transaction is
\* pending or committed), every key and every successor in processes and
\* every PID listed in permissions is a well-formed PID, and every key of
\* permissions is a key of document.
C22_GenesisStructure ==
    /\ \A t \in Threads :
          (pc[t] = "done" /\ IsWorkflow(tx[t]) /\ result[t] = "True")
          => GenesisStructure(tx[t])
    /\ \A x \in pool \cup ledger : IsWorkflow(x) => GenesisStructure(x)

\* The workflow_transaction of the task a references, in chain, a
\* WorkflowTransaction that carries the workflow_id of a.
GovernedByGenesis(a, chain) ==
    LET w == get_transaction(chain, workflow_transaction(a))
    IN  /\ ~IsNone(w)
        /\ IsWorkflow(w)
        /\ Has(w.payload, "workflow_id")
        /\ workflow_ID(w) = workflow_ID(a)

\* C23: One governing genesis per workflow.  In the ledger, which holds only
\* transactions that validated true, all TaskTransactions with the same
\* workflow_id reference the same workflow_transaction, and the transaction
\* they reference is a WorkflowTransaction carrying that workflow_id.
C23_OneGoverningGenesis ==
    \A a \in ledger :
        IsTask(a) =>
            /\ GovernedByGenesis(a, ledger)
            /\ \A b \in ledger :
                  (IsTask(b) /\ workflow_ID(b) = workflow_ID(a))
                  => workflow_transaction(b) = workflow_transaction(a)

\* The transactions met when previous_transaction is followed backwards
\* from x in chain, x first, for at most n references; the walk stops at a
\* transaction that is no task or whose predecessor is not in chain.
RECURSIVE ChainFrom(_, _, _)
ChainFrom(x, chain, n) ==
    IF ~IsTask(x) \/ n = 0 THEN <<x>>
    ELSE LET p == get_transaction(chain, previous_transaction(x))
         IN  IF IsNone(p) THEN <<x>>
             ELSE <<x>> \o ChainFrom(p, chain, n - 1)

\* The walk from x visits no transaction twice and ends at a
\* WorkflowTransaction of the workflow of x.
WellFounded(x, chain) ==
    LET c == ChainFrom(x, chain, Cardinality(chain))
    IN  /\ \A i, j \in DOMAIN c : i # j => c[i] # c[j]
        /\ IsWorkflow(c[Len(c)])
        /\ workflow_ID(c[Len(c)]) = workflow_ID(x)

C25_PidCheckExact ==
    pid_ret # "none" => (pid_ret = "True" <=> WellFormedPid(pid_arg))

\* The WorkflowTransaction x is itself pending or committed and is the only
\* transaction of ledger and pool that carries its workflow_id.
OnlyItself(x) ==
    /\ x \in ledger \cup pool
    /\ WorkflowIdFresh(x, ledger \cup pool)

\* C26: The genesis uniqueness step rejects only on account of a different
\* transaction.  When the WorkflowTransaction being validated is itself
\* pending or committed and no other transaction of ledger and pool carries
\* its workflow_id, the uniqueness step passes and validation proceeds to
\* the PID checks: with processes and permissions that pass them, the call
\* leaves the locked part for the common part instead of ending there.
C26_RejectsOnlyOther ==
    [][\A t \in Threads :
          ( /\ pc[t] = "scan"
            /\ pc'[t] # "scan"
            /\ WorkflowTypeOk(tx[t])
            /\ Has(tx[t].payload, "workflow_id")
            /\ OnlyItself(tx[t])
            /\ StructureOutcome(tx[t]) = "pass" )
          => pc'[t] = "common"]_vars

\* The wizard has just handed new_transaction to sendTransaction.
JustSent == wiz_pc = "anykey" /\ new_transaction.cls = "Task"

\* C27: The initial-transaction wizard sends a genesis transaction.  When
\* DocTransactionWizard runs with isInitial true and the user completes it,
\* the transaction handed to network_interface.sendTransaction has payload
\* transaction_type "1" and carries the processes and permissions the user
\* entered.
C27_WizardSendsGenesis ==
    (JustSent /\ isInitial) =>
        /\ new_transaction.payload["transaction_type"] = "1"
        /\ new_transaction.payload["processes"] = process_json
        /\ new_transaction.payload["permissions"] = permissionData_json

\* The strings found in the fields of the transaction x.
FieldStrings(x) ==
    {x.sender, x.receiver, x.payload["workflow-id"],
     x.payload["transaction_type"], x.payload["in_charge"]}
    \cup DOMAIN x.payload["document"] \cup Range(x.payload["document"])

\* C28: No private key leaves the client.  In every transaction that
\* DocTransactionWizard.show passes to network_interface.sendTransaction the
\* sender field is the public key of the chosen wallet entry, and no field
\* of the transaction (sender, receiver, payload) equals the private key of
\* that entry.
C28_NoPrivateKeyLeaves ==
    JustSent =>
        /\ new_transaction.sender = wallet[IndexOf[chosen_key]].public_key
        /\ wallet[IndexOf[chosen_key]].private_key \notin FieldStrings(new_transaction)

\* C29: Menu fast exit.  A Menu created with fast_exit true leaves its show
\* loop after the first input it reads, whatever that input is (a listed
\* option, the back key 'q' or an input that matches no option): once an
\* input is read the menu waits for no further input, and it invokes at
\* most one option callback.
C29_MenuFastExit ==
    fast_exit =>
        /\ inputs_read >= 1 => menu_pc # "input"
        /\ invoked <= 1

====
